---- MODULE Spec2Model ----
(***************************************************************************)
(* Hostel Management System API: the rule-based complaint analyser         *)
(* (analyze_text) and the three complaint operations that use it           *)
(* (create_complaint, list_complaints, analyze_complaint).                 *)
(*                                                                         *)
(* A text is a Python str: a sequence of Unicode code points, each a        *)
(* number in 0..1114111.  Labels, dict keys and identifiers that are never *)
(* analysed are written as atoms.                                          *)
(***************************************************************************)
EXTENDS Integers, Sequences, FiniteSets, TLC

VARIABLES
    hashseed,           \* the process's string-hash seed
    from_pyc,           \* main.py was loaded from its bytecode cache, not compiled
                        \* from source; with hashseed it fixes set iteration order
    NEG_WORDS,          \* module global: set of negative marker words
    POS_WORDS,          \* module global: set of positive marker words
    CATEGORY_KEYWORDS,  \* module global: insertion-ordered dict, as a sequence of items
    complaints,         \* the "complaint" collection of the document store
    request,            \* the request being served (operation and its input)
    response,           \* the value returned for that request
    text,               \* argument of the analyze_text call under study
    frame               \* locals of that analyze_text call at its return

vars == <<hashseed, from_pyc, NEG_WORDS, POS_WORDS, CATEGORY_KEYWORDS, complaints, request, response, text, frame>>

globals == <<hashseed, from_pyc, NEG_WORDS, POS_WORDS, CATEGORY_KEYWORDS>>

-----------------------------------------------------------------------------
(* Bounds *)

\* number of complaints the collection may hold
MaxComplaints == 2

\* number of phrases joined into one analysed text
MaxPhrases == 2

\* largest hash seed, each seed giving the sets another iteration order
MaxSeed == 1

-----------------------------------------------------------------------------
(* Python values *)

\* Python's None (no string of the model spells it)
None == "<None>"

-----------------------------------------------------------------------------
(* Text literals *)

\* printable ASCII characters by code point: <<code of the first, characters>>
AsciiRuns ==
    { <<32, " !">>,
      <<35, "#$%&'()*+,-./0123456789:;<=>?@ABCDEFGHIJKLMNOPQRSTUVWXYZ[">>,
      <<93, "]^_">>,
      <<97, "abcdefghijklmnopqrstuvwxyz{|}~">> }

\* code point of a printable ASCII character
CodeOf(ch) ==
    LET r == CHOOSE q \in AsciiRuns : \E i \in 1..Len(q[2]) : SubSeq(q[2], i, i) = ch
    IN  r[1] - 1 + CHOOSE i \in 1..Len(r[2]) : SubSeq(r[2], i, i) = ch

\* the str whose characters are those of the ASCII literal s, as a tuple of
\* code points
RECURSIVE Str(_)
Str(s) ==
    IF Len(s) = 0 THEN <<>>
    ELSE Append(Str(SubSeq(s, 1, Len(s) - 1)), CodeOf(SubSeq(s, Len(s), Len(s))))

\* code points used in texts beside ASCII
KELVIN == 8490

CAPITAL_I_DOT == 304

CAPITAL_E_ACUTE == 201

CAPITAL_SIGMA == 931

SMALL_SIGMA == 963

SMALL_FINAL_SIGMA == 962

-----------------------------------------------------------------------------
(* str.lower() of CPython 3.11 (Unicode 14.0.0) and the substring test `w in t` *)

\* the characters with a one-character lower-case form other than themselves:
\* <<first, last, step, offset>> stands for first, first + step, ..., last,
\* each mapped to itself plus offset
LowerRuns ==
    {
      <<65, 90, 1, 32>>, <<192, 214, 1, 32>>, <<216, 222, 1, 32>>, <<256, 302, 2, 1>>,
      <<306, 310, 2, 1>>, <<313, 327, 2, 1>>, <<330, 374, 2, 1>>, <<376, 376, 1, -121>>,
      <<377, 381, 2, 1>>, <<385, 385, 1, 210>>, <<386, 388, 2, 1>>, <<390, 390, 1, 206>>,
      <<391, 391, 1, 1>>, <<393, 394, 1, 205>>, <<395, 395, 1, 1>>, <<398, 398, 1, 79>>,
      <<399, 399, 1, 202>>, <<400, 400, 1, 203>>, <<401, 401, 1, 1>>, <<403, 403, 1, 205>>,
      <<404, 404, 1, 207>>, <<406, 406, 1, 211>>, <<407, 407, 1, 209>>, <<408, 408, 1, 1>>,
      <<412, 412, 1, 211>>, <<413, 413, 1, 213>>, <<415, 415, 1, 214>>, <<416, 420, 2, 1>>,
      <<422, 422, 1, 218>>, <<423, 423, 1, 1>>, <<425, 425, 1, 218>>, <<428, 428, 1, 1>>,
      <<430, 430, 1, 218>>, <<431, 431, 1, 1>>, <<433, 434, 1, 217>>, <<435, 437, 2, 1>>,
      <<439, 439, 1, 219>>, <<440, 440, 1, 1>>, <<444, 444, 1, 1>>, <<452, 452, 1, 2>>,
      <<453, 453, 1, 1>>, <<455, 455, 1, 2>>, <<456, 456, 1, 1>>, <<458, 458, 1, 2>>,
      <<459, 475, 2, 1>>, <<478, 494, 2, 1>>, <<497, 497, 1, 2>>, <<498, 500, 2, 1>>,
      <<502, 502, 1, -97>>, <<503, 503, 1, -56>>, <<504, 542, 2, 1>>,
      <<544, 544, 1, -130>>, <<546, 562, 2, 1>>, <<570, 570, 1, 10795>>,
      <<571, 571, 1, 1>>, <<573, 573, 1, -163>>, <<574, 574, 1, 10792>>,
      <<577, 577, 1, 1>>, <<579, 579, 1, -195>>, <<580, 580, 1, 69>>, <<581, 581, 1, 71>>,
      <<582, 590, 2, 1>>, <<880, 882, 2, 1>>, <<886, 886, 1, 1>>, <<895, 895, 1, 116>>,
      <<902, 902, 1, 38>>, <<904, 906, 1, 37>>, <<908, 908, 1, 64>>, <<910, 911, 1, 63>>,
      <<913, 929, 1, 32>>, <<931, 939, 1, 32>>, <<975, 975, 1, 8>>, <<984, 1006, 2, 1>>,
      <<1012, 1012, 1, -60>>, <<1015, 1015, 1, 1>>, <<1017, 1017, 1, -7>>,
      <<1018, 1018, 1, 1>>, <<1021, 1023, 1, -130>>, <<1024, 1039, 1, 80>>,
      <<1040, 1071, 1, 32>>, <<1120, 1152, 2, 1>>, <<1162, 1214, 2, 1>>,
      <<1216, 1216, 1, 15>>, <<1217, 1229, 2, 1>>, <<1232, 1326, 2, 1>>,
      <<1329, 1366, 1, 48>>, <<4256, 4293, 1, 7264>>, <<4295, 4295, 1, 7264>>,
      <<4301, 4301, 1, 7264>>, <<5024, 5103, 1, 38864>>, <<5104, 5109, 1, 8>>,
      <<7312, 7354, 1, -3008>>, <<7357, 7359, 1, -3008>>, <<7680, 7828, 2, 1>>,
      <<7838, 7838, 1, -7615>>, <<7840, 7934, 2, 1>>, <<7944, 7951, 1, -8>>,
      <<7960, 7965, 1, -8>>, <<7976, 7983, 1, -8>>, <<7992, 7999, 1, -8>>,
      <<8008, 8013, 1, -8>>, <<8025, 8031, 2, -8>>, <<8040, 8047, 1, -8>>,
      <<8072, 8079, 1, -8>>, <<8088, 8095, 1, -8>>, <<8104, 8111, 1, -8>>,
      <<8120, 8121, 1, -8>>, <<8122, 8123, 1, -74>>, <<8124, 8124, 1, -9>>,
      <<8136, 8139, 1, -86>>, <<8140, 8140, 1, -9>>, <<8152, 8153, 1, -8>>,
      <<8154, 8155, 1, -100>>, <<8168, 8169, 1, -8>>, <<8170, 8171, 1, -112>>,
      <<8172, 8172, 1, -7>>, <<8184, 8185, 1, -128>>, <<8186, 8187, 1, -126>>,
      <<8188, 8188, 1, -9>>, <<8486, 8486, 1, -7517>>, <<8490, 8490, 1, -8383>>,
      <<8491, 8491, 1, -8262>>, <<8498, 8498, 1, 28>>, <<8544, 8559, 1, 16>>,
      <<8579, 8579, 1, 1>>, <<9398, 9423, 1, 26>>, <<11264, 11311, 1, 48>>,
      <<11360, 11360, 1, 1>>, <<11362, 11362, 1, -10743>>, <<11363, 11363, 1, -3814>>,
      <<11364, 11364, 1, -10727>>, <<11367, 11371, 2, 1>>, <<11373, 11373, 1, -10780>>,
      <<11374, 11374, 1, -10749>>, <<11375, 11375, 1, -10783>>,
      <<11376, 11376, 1, -10782>>, <<11378, 11378, 1, 1>>, <<11381, 11381, 1, 1>>,
      <<11390, 11391, 1, -10815>>, <<11392, 11490, 2, 1>>, <<11499, 11501, 2, 1>>,
      <<11506, 11506, 1, 1>>, <<42560, 42604, 2, 1>>, <<42624, 42650, 2, 1>>,
      <<42786, 42798, 2, 1>>, <<42802, 42862, 2, 1>>, <<42873, 42875, 2, 1>>,
      <<42877, 42877, 1, -35332>>, <<42878, 42886, 2, 1>>, <<42891, 42891, 1, 1>>,
      <<42893, 42893, 1, -42280>>, <<42896, 42898, 2, 1>>, <<42902, 42920, 2, 1>>,
      <<42922, 42922, 1, -42308>>, <<42923, 42923, 1, -42319>>,
      <<42924, 42924, 1, -42315>>, <<42925, 42925, 1, -42305>>,
      <<42926, 42926, 1, -42308>>, <<42928, 42928, 1, -42258>>,
      <<42929, 42929, 1, -42282>>, <<42930, 42930, 1, -42261>>, <<42931, 42931, 1, 928>>,
      <<42932, 42946, 2, 1>>, <<42948, 42948, 1, -48>>, <<42949, 42949, 1, -42307>>,
      <<42950, 42950, 1, -35384>>, <<42951, 42953, 2, 1>>, <<42960, 42960, 1, 1>>,
      <<42966, 42968, 2, 1>>, <<42997, 42997, 1, 1>>, <<65313, 65338, 1, 32>>,
      <<66560, 66599, 1, 40>>, <<66736, 66771, 1, 40>>, <<66928, 66938, 1, 39>>,
      <<66940, 66954, 1, 39>>, <<66956, 66962, 1, 39>>, <<66964, 66965, 1, 39>>,
      <<68736, 68786, 1, 64>>, <<71840, 71871, 1, 32>>, <<93760, 93791, 1, 32>>,
      <<125184, 125217, 1, 34>> }

\* the character c belongs to the run r
InRun(c, r) == r[1] <= c /\ c <= r[2] /\ (c - r[1]) % r[3] = 0

\* lower-case forms of more than one character
LowerSpecial == (CAPITAL_I_DOT :> <<105, 775>>)

\* ranges <<first, last>> of the cased characters that are not case-ignorable
CasedRanges ==
    {
      <<65, 90>>, <<97, 122>>, <<170, 170>>, <<181, 181>>, <<186, 186>>, <<192, 214>>,
      <<216, 246>>, <<248, 442>>, <<444, 447>>, <<452, 659>>, <<661, 687>>, <<880, 883>>,
      <<886, 887>>, <<891, 893>>, <<895, 895>>, <<902, 902>>, <<904, 906>>, <<908, 908>>,
      <<910, 929>>, <<931, 1013>>, <<1015, 1153>>, <<1162, 1327>>, <<1329, 1366>>,
      <<1376, 1416>>, <<4256, 4293>>, <<4295, 4295>>, <<4301, 4301>>, <<4304, 4346>>,
      <<4349, 4351>>, <<5024, 5109>>, <<5112, 5117>>, <<7296, 7304>>, <<7312, 7354>>,
      <<7357, 7359>>, <<7424, 7467>>, <<7531, 7543>>, <<7545, 7578>>, <<7680, 7957>>,
      <<7960, 7965>>, <<7968, 8005>>, <<8008, 8013>>, <<8016, 8023>>, <<8025, 8025>>,
      <<8027, 8027>>, <<8029, 8029>>, <<8031, 8061>>, <<8064, 8116>>, <<8118, 8124>>,
      <<8126, 8126>>, <<8130, 8132>>, <<8134, 8140>>, <<8144, 8147>>, <<8150, 8155>>,
      <<8160, 8172>>, <<8178, 8180>>, <<8182, 8188>>, <<8450, 8450>>, <<8455, 8455>>,
      <<8458, 8467>>, <<8469, 8469>>, <<8473, 8477>>, <<8484, 8484>>, <<8486, 8486>>,
      <<8488, 8488>>, <<8490, 8493>>, <<8495, 8500>>, <<8505, 8505>>, <<8508, 8511>>,
      <<8517, 8521>>, <<8526, 8526>>, <<8544, 8575>>, <<8579, 8580>>, <<9398, 9449>>,
      <<11264, 11387>>, <<11390, 11492>>, <<11499, 11502>>, <<11506, 11507>>,
      <<11520, 11557>>, <<11559, 11559>>, <<11565, 11565>>, <<42560, 42605>>,
      <<42624, 42651>>, <<42786, 42863>>, <<42865, 42887>>, <<42891, 42894>>,
      <<42896, 42954>>, <<42960, 42961>>, <<42963, 42963>>, <<42965, 42969>>,
      <<42997, 42998>>, <<43002, 43002>>, <<43824, 43866>>, <<43872, 43880>>,
      <<43888, 43967>>, <<64256, 64262>>, <<64275, 64279>>, <<65313, 65338>>,
      <<65345, 65370>>, <<66560, 66639>>, <<66736, 66771>>, <<66776, 66811>>,
      <<66928, 66938>>, <<66940, 66954>>, <<66956, 66962>>, <<66964, 66965>>,
      <<66967, 66977>>, <<66979, 66993>>, <<66995, 67001>>, <<67003, 67004>>,
      <<68736, 68786>>, <<68800, 68850>>, <<71840, 71903>>, <<93760, 93823>>,
      <<119808, 119892>>, <<119894, 119964>>, <<119966, 119967>>, <<119970, 119970>>,
      <<119973, 119974>>, <<119977, 119980>>, <<119982, 119993>>, <<119995, 119995>>,
      <<119997, 120003>>, <<120005, 120069>>, <<120071, 120074>>, <<120077, 120084>>,
      <<120086, 120092>>, <<120094, 120121>>, <<120123, 120126>>, <<120128, 120132>>,
      <<120134, 120134>>, <<120138, 120144>>, <<120146, 120485>>, <<120488, 120512>>,
      <<120514, 120538>>, <<120540, 120570>>, <<120572, 120596>>, <<120598, 120628>>,
      <<120630, 120654>>, <<120656, 120686>>, <<120688, 120712>>, <<120714, 120744>>,
      <<120746, 120770>>, <<120772, 120779>>, <<122624, 122633>>, <<122635, 122654>>,
      <<125184, 125251>>, <<127280, 127305>>, <<127312, 127337>>, <<127344, 127369>> }

\* ranges <<first, last>> of the case-ignorable characters
CaseIgnorableRanges ==
    {
      <<39, 39>>, <<46, 46>>, <<58, 58>>, <<94, 94>>, <<96, 96>>, <<168, 168>>,
      <<173, 173>>, <<175, 175>>, <<180, 180>>, <<183, 184>>, <<688, 879>>, <<884, 885>>,
      <<890, 890>>, <<900, 901>>, <<903, 903>>, <<1155, 1161>>, <<1369, 1369>>,
      <<1375, 1375>>, <<1425, 1469>>, <<1471, 1471>>, <<1473, 1474>>, <<1476, 1477>>,
      <<1479, 1479>>, <<1524, 1524>>, <<1536, 1541>>, <<1552, 1562>>, <<1564, 1564>>,
      <<1600, 1600>>, <<1611, 1631>>, <<1648, 1648>>, <<1750, 1757>>, <<1759, 1768>>,
      <<1770, 1773>>, <<1807, 1807>>, <<1809, 1809>>, <<1840, 1866>>, <<1958, 1968>>,
      <<2027, 2037>>, <<2042, 2042>>, <<2045, 2045>>, <<2070, 2093>>, <<2137, 2139>>,
      <<2184, 2184>>, <<2192, 2193>>, <<2200, 2207>>, <<2249, 2306>>, <<2362, 2362>>,
      <<2364, 2364>>, <<2369, 2376>>, <<2381, 2381>>, <<2385, 2391>>, <<2402, 2403>>,
      <<2417, 2417>>, <<2433, 2433>>, <<2492, 2492>>, <<2497, 2500>>, <<2509, 2509>>,
      <<2530, 2531>>, <<2558, 2558>>, <<2561, 2562>>, <<2620, 2620>>, <<2625, 2626>>,
      <<2631, 2632>>, <<2635, 2637>>, <<2641, 2641>>, <<2672, 2673>>, <<2677, 2677>>,
      <<2689, 2690>>, <<2748, 2748>>, <<2753, 2757>>, <<2759, 2760>>, <<2765, 2765>>,
      <<2786, 2787>>, <<2810, 2815>>, <<2817, 2817>>, <<2876, 2876>>, <<2879, 2879>>,
      <<2881, 2884>>, <<2893, 2893>>, <<2901, 2902>>, <<2914, 2915>>, <<2946, 2946>>,
      <<3008, 3008>>, <<3021, 3021>>, <<3072, 3072>>, <<3076, 3076>>, <<3132, 3132>>,
      <<3134, 3136>>, <<3142, 3144>>, <<3146, 3149>>, <<3157, 3158>>, <<3170, 3171>>,
      <<3201, 3201>>, <<3260, 3260>>, <<3263, 3263>>, <<3270, 3270>>, <<3276, 3277>>,
      <<3298, 3299>>, <<3328, 3329>>, <<3387, 3388>>, <<3393, 3396>>, <<3405, 3405>>,
      <<3426, 3427>>, <<3457, 3457>>, <<3530, 3530>>, <<3538, 3540>>, <<3542, 3542>>,
      <<3633, 3633>>, <<3636, 3642>>, <<3654, 3662>>, <<3761, 3761>>, <<3764, 3772>>,
      <<3782, 3782>>, <<3784, 3789>>, <<3864, 3865>>, <<3893, 3893>>, <<3895, 3895>>,
      <<3897, 3897>>, <<3953, 3966>>, <<3968, 3972>>, <<3974, 3975>>, <<3981, 3991>>,
      <<3993, 4028>>, <<4038, 4038>>, <<4141, 4144>>, <<4146, 4151>>, <<4153, 4154>>,
      <<4157, 4158>>, <<4184, 4185>>, <<4190, 4192>>, <<4209, 4212>>, <<4226, 4226>>,
      <<4229, 4230>>, <<4237, 4237>>, <<4253, 4253>>, <<4348, 4348>>, <<4957, 4959>>,
      <<5906, 5908>>, <<5938, 5939>>, <<5970, 5971>>, <<6002, 6003>>, <<6068, 6069>>,
      <<6071, 6077>>, <<6086, 6086>>, <<6089, 6099>>, <<6103, 6103>>, <<6109, 6109>>,
      <<6155, 6159>>, <<6211, 6211>>, <<6277, 6278>>, <<6313, 6313>>, <<6432, 6434>>,
      <<6439, 6440>>, <<6450, 6450>>, <<6457, 6459>>, <<6679, 6680>>, <<6683, 6683>>,
      <<6742, 6742>>, <<6744, 6750>>, <<6752, 6752>>, <<6754, 6754>>, <<6757, 6764>>,
      <<6771, 6780>>, <<6783, 6783>>, <<6823, 6823>>, <<6832, 6862>>, <<6912, 6915>>,
      <<6964, 6964>>, <<6966, 6970>>, <<6972, 6972>>, <<6978, 6978>>, <<7019, 7027>>,
      <<7040, 7041>>, <<7074, 7077>>, <<7080, 7081>>, <<7083, 7085>>, <<7142, 7142>>,
      <<7144, 7145>>, <<7149, 7149>>, <<7151, 7153>>, <<7212, 7219>>, <<7222, 7223>>,
      <<7288, 7293>>, <<7376, 7378>>, <<7380, 7392>>, <<7394, 7400>>, <<7405, 7405>>,
      <<7412, 7412>>, <<7416, 7417>>, <<7468, 7530>>, <<7544, 7544>>, <<7579, 7679>>,
      <<8125, 8125>>, <<8127, 8129>>, <<8141, 8143>>, <<8157, 8159>>, <<8173, 8175>>,
      <<8189, 8190>>, <<8203, 8207>>, <<8216, 8217>>, <<8228, 8228>>, <<8231, 8231>>,
      <<8234, 8238>>, <<8288, 8292>>, <<8294, 8303>>, <<8305, 8305>>, <<8319, 8319>>,
      <<8336, 8348>>, <<8400, 8432>>, <<11388, 11389>>, <<11503, 11505>>, <<11631, 11631>>,
      <<11647, 11647>>, <<11744, 11775>>, <<11823, 11823>>, <<12293, 12293>>,
      <<12330, 12333>>, <<12337, 12341>>, <<12347, 12347>>, <<12441, 12446>>,
      <<12540, 12542>>, <<40981, 40981>>, <<42232, 42237>>, <<42508, 42508>>,
      <<42607, 42610>>, <<42612, 42621>>, <<42623, 42623>>, <<42652, 42655>>,
      <<42736, 42737>>, <<42752, 42785>>, <<42864, 42864>>, <<42888, 42890>>,
      <<42994, 42996>>, <<43000, 43001>>, <<43010, 43010>>, <<43014, 43014>>,
      <<43019, 43019>>, <<43045, 43046>>, <<43052, 43052>>, <<43204, 43205>>,
      <<43232, 43249>>, <<43263, 43263>>, <<43302, 43309>>, <<43335, 43345>>,
      <<43392, 43394>>, <<43443, 43443>>, <<43446, 43449>>, <<43452, 43453>>,
      <<43471, 43471>>, <<43493, 43494>>, <<43561, 43566>>, <<43569, 43570>>,
      <<43573, 43574>>, <<43587, 43587>>, <<43596, 43596>>, <<43632, 43632>>,
      <<43644, 43644>>, <<43696, 43696>>, <<43698, 43700>>, <<43703, 43704>>,
      <<43710, 43711>>, <<43713, 43713>>, <<43741, 43741>>, <<43756, 43757>>,
      <<43763, 43764>>, <<43766, 43766>>, <<43867, 43871>>, <<43881, 43883>>,
      <<44005, 44005>>, <<44008, 44008>>, <<44013, 44013>>, <<64286, 64286>>,
      <<64434, 64450>>, <<65024, 65039>>, <<65043, 65043>>, <<65056, 65071>>,
      <<65106, 65106>>, <<65109, 65109>>, <<65279, 65279>>, <<65287, 65287>>,
      <<65294, 65294>>, <<65306, 65306>>, <<65342, 65342>>, <<65344, 65344>>,
      <<65392, 65392>>, <<65438, 65439>>, <<65507, 65507>>, <<65529, 65531>>,
      <<66045, 66045>>, <<66272, 66272>>, <<66422, 66426>>, <<67456, 67461>>,
      <<67463, 67504>>, <<67506, 67514>>, <<68097, 68099>>, <<68101, 68102>>,
      <<68108, 68111>>, <<68152, 68154>>, <<68159, 68159>>, <<68325, 68326>>,
      <<68900, 68903>>, <<69291, 69292>>, <<69446, 69456>>, <<69506, 69509>>,
      <<69633, 69633>>, <<69688, 69702>>, <<69744, 69744>>, <<69747, 69748>>,
      <<69759, 69761>>, <<69811, 69814>>, <<69817, 69818>>, <<69821, 69821>>,
      <<69826, 69826>>, <<69837, 69837>>, <<69888, 69890>>, <<69927, 69931>>,
      <<69933, 69940>>, <<70003, 70003>>, <<70016, 70017>>, <<70070, 70078>>,
      <<70089, 70092>>, <<70095, 70095>>, <<70191, 70193>>, <<70196, 70196>>,
      <<70198, 70199>>, <<70206, 70206>>, <<70367, 70367>>, <<70371, 70378>>,
      <<70400, 70401>>, <<70459, 70460>>, <<70464, 70464>>, <<70502, 70508>>,
      <<70512, 70516>>, <<70712, 70719>>, <<70722, 70724>>, <<70726, 70726>>,
      <<70750, 70750>>, <<70835, 70840>>, <<70842, 70842>>, <<70847, 70848>>,
      <<70850, 70851>>, <<71090, 71093>>, <<71100, 71101>>, <<71103, 71104>>,
      <<71132, 71133>>, <<71219, 71226>>, <<71229, 71229>>, <<71231, 71232>>,
      <<71339, 71339>>, <<71341, 71341>>, <<71344, 71349>>, <<71351, 71351>>,
      <<71453, 71455>>, <<71458, 71461>>, <<71463, 71467>>, <<71727, 71735>>,
      <<71737, 71738>>, <<71995, 71996>>, <<71998, 71998>>, <<72003, 72003>>,
      <<72148, 72151>>, <<72154, 72155>>, <<72160, 72160>>, <<72193, 72202>>,
      <<72243, 72248>>, <<72251, 72254>>, <<72263, 72263>>, <<72273, 72278>>,
      <<72281, 72283>>, <<72330, 72342>>, <<72344, 72345>>, <<72752, 72758>>,
      <<72760, 72765>>, <<72767, 72767>>, <<72850, 72871>>, <<72874, 72880>>,
      <<72882, 72883>>, <<72885, 72886>>, <<73009, 73014>>, <<73018, 73018>>,
      <<73020, 73021>>, <<73023, 73029>>, <<73031, 73031>>, <<73104, 73105>>,
      <<73109, 73109>>, <<73111, 73111>>, <<73459, 73460>>, <<78896, 78904>>,
      <<92912, 92916>>, <<92976, 92982>>, <<92992, 92995>>, <<94031, 94031>>,
      <<94095, 94111>>, <<94176, 94177>>, <<94179, 94180>>, <<110576, 110579>>,
      <<110581, 110587>>, <<110589, 110590>>, <<113821, 113822>>, <<113824, 113827>>,
      <<118528, 118573>>, <<118576, 118598>>, <<119143, 119145>>, <<119155, 119170>>,
      <<119173, 119179>>, <<119210, 119213>>, <<119362, 119364>>, <<121344, 121398>>,
      <<121403, 121452>>, <<121461, 121461>>, <<121476, 121476>>, <<121499, 121503>>,
      <<121505, 121519>>, <<122880, 122886>>, <<122888, 122904>>, <<122907, 122913>>,
      <<122915, 122916>>, <<122918, 122922>>, <<123184, 123197>>, <<123566, 123566>>,
      <<123628, 123631>>, <<125136, 125142>>, <<125252, 125259>>, <<127995, 127999>>,
      <<917505, 917505>>, <<917536, 917631>>, <<917760, 917999>> }

\* c is cased and not case-ignorable
Cased(c) == \E r \in CasedRanges : r[1] <= c /\ c <= r[2]

CaseIgnorable(c) == \E r \in CaseIgnorableRanges : r[1] <= c /\ c <= r[2]

\* lower-case form of the character c standing alone: a str of one or two
\* characters; a character without a lower-case form maps to itself.  Of the
\* ASCII characters only A-Z have one.
LowerChar(c) ==
    IF c < 128 THEN (IF c \in 65..90 THEN <<c + 32>> ELSE <<c>>)
    ELSE IF c \in DOMAIN LowerSpecial THEN LowerSpecial[c]
    ELSE IF \E r \in LowerRuns : InRun(c, r)
         THEN <<c + (CHOOSE r \in LowerRuns : InRun(c, r))[4]>>
    ELSE <<c>>

RECURSIVE SkipBack(_, _)
\* the nearest position at or before j whose character is not case-ignorable,
\* 0 if there is none
SkipBack(s, j) ==
    IF j = 0 THEN 0
    ELSE IF ~CaseIgnorable(s[j]) THEN j
    ELSE SkipBack(s, j - 1)

RECURSIVE SkipForward(_, _)
\* the nearest position at or after j whose character is not case-ignorable,
\* Len(s) + 1 if there is none
SkipForward(s, j) ==
    IF j > Len(s) THEN j
    ELSE IF ~CaseIgnorable(s[j]) THEN j
    ELSE SkipForward(s, j + 1)

\* the capital sigma at s[i] is final: the nearest character before it that
\* is not case-ignorable is cased, and the nearest such character after it,
\* if any, is not cased
FinalSigma(s, i) ==
    LET prev == SkipBack(s, i - 1)
        next == SkipForward(s, i + 1)
    IN  /\ prev > 0
        /\ Cased(s[prev])
        /\ next > Len(s) \/ ~Cased(s[next])

\* lower-case form of the character at position i of s
LowerAt(s, i) ==
    IF s[i] = CAPITAL_SIGMA
    THEN (IF FinalSigma(s, i) THEN <<SMALL_FINAL_SIGMA>> ELSE <<SMALL_SIGMA>>)
    ELSE LowerChar(s[i])

RECURSIVE LowerRange(_, _, _)
\* the lower-case forms of s[a..b], concatenated
LowerRange(s, a, b) ==
    IF a > b THEN <<>>
    ELSE IF a = b THEN LowerAt(s, a)
    ELSE LET h == (a + b) \div 2
         IN  LowerRange(s, a, h) \o LowerRange(s, h + 1, b)

\* text.lower()
lower(s) == LowerRange(s, 1, Len(s))

\* `w in t` for strings: w occurs in t as a contiguous substring
contains(t, w) ==
    \E i \in 0..(Len(t) - Len(w)) : \A j \in 1..Len(w) : t[i + j] = w[j]

-----------------------------------------------------------------------------
(* The keyword tables as written in the source *)

NegWordsInit ==
    {Str("bad"), Str("terrible"), Str("worst"), Str("awful"), Str("dirty"), Str("late"),
     Str("rude"), Str("leak"), Str("broken"), Str("noisy"), Str("slow")}

PosWordsInit ==
    {Str("good"), Str("great"), Str("excellent"), Str("helpful"), Str("clean"), Str("quick")}

CategoryKeywordsInit ==
    << [cat |-> "maintenance",
        keys |-> <<Str("leak"), Str("broken"), Str("repair"), Str("power"), Str("electric"),
                   Str("plumbing"), Str("fan"), Str("ac"), Str("heater")>>],
       [cat |-> "food",
        keys |-> <<Str("mess"), Str("food"), Str("canteen"), Str("meal"), Str("breakfast"),
                   Str("dinner"), Str("lunch")>>],
       [cat |-> "security",
        keys |-> <<Str("security"), Str("guard"), Str("gate"), Str("theft"), Str("steal")>>],
       [cat |-> "cleanliness",
        keys |-> <<Str("dirty"), Str("clean"), Str("trash"), Str("garbage")>>],
       [cat |-> "discipline",
        keys |-> <<Str("noise"), Str("noisy"), Str("disturb"), Str("fight")>> ] >>

-----------------------------------------------------------------------------
(* Iteration order of a Python set: fixed by the hash seed of the process *)
(* and by the way the module was loaded.  The elements of a set literal    *)
(* are a frozenset constant of the code object; compiled from source it    *)
(* is filled in the order of the literal, loaded from __pycache__ in the   *)
(* order marshal wrote it, and words whose hashes collide then take their  *)
(* slots in another order.                                                 *)

SeedRange == 0..MaxSeed

\* the processes that can serve requests: PYTHONHASHSEED and load path
Processes == [seed : SeedRange, pyc : BOOLEAN]

\* the process serving the requests
process == [seed |-> hashseed, pyc |-> from_pyc]

\* list(NEG_WORDS) and list(POS_WORDS) in a CPython 3.11 process started with
\* PYTHONHASHSEED = 0, 1, ..., 7, main.py compiled from source (`source`) or
\* loaded from its bytecode cache (`pyc`); every word is written as its code
\* points
HashOrders ==
    <<
       \* PYTHONHASHSEED=0
       \*   source neg: terrible broken leak worst dirty late slow awful rude noisy bad
       \*   source pos: great clean good quick helpful excellent
       \*   pyc    neg: terrible broken leak worst dirty slow late awful rude noisy bad
       \*   pyc    pos: great clean good quick helpful excellent
       [source |->
          [neg |-> << <<116, 101, 114, 114, 105, 98, 108, 101>>,
                      <<98, 114, 111, 107, 101, 110>>, <<108, 101, 97, 107>>,
                      <<119, 111, 114, 115, 116>>, <<100, 105, 114, 116, 121>>,
                      <<108, 97, 116, 101>>, <<115, 108, 111, 119>>,
                      <<97, 119, 102, 117, 108>>, <<114, 117, 100, 101>>,
                      <<110, 111, 105, 115, 121>>, <<98, 97, 100>> >>,
           pos |-> << <<103, 114, 101, 97, 116>>, <<99, 108, 101, 97, 110>>,
                      <<103, 111, 111, 100>>, <<113, 117, 105, 99, 107>>,
                      <<104, 101, 108, 112, 102, 117, 108>>,
                      <<101, 120, 99, 101, 108, 108, 101, 110, 116>> >>],
        pyc |->
          [neg |-> << <<116, 101, 114, 114, 105, 98, 108, 101>>,
                      <<98, 114, 111, 107, 101, 110>>, <<108, 101, 97, 107>>,
                      <<119, 111, 114, 115, 116>>, <<100, 105, 114, 116, 121>>,
                      <<115, 108, 111, 119>>, <<108, 97, 116, 101>>,
                      <<97, 119, 102, 117, 108>>, <<114, 117, 100, 101>>,
                      <<110, 111, 105, 115, 121>>, <<98, 97, 100>> >>,
           pos |-> << <<103, 114, 101, 97, 116>>, <<99, 108, 101, 97, 110>>,
                      <<103, 111, 111, 100>>, <<113, 117, 105, 99, 107>>,
                      <<104, 101, 108, 112, 102, 117, 108>>,
                      <<101, 120, 99, 101, 108, 108, 101, 110, 116>> >>]],
       \* PYTHONHASHSEED=1
       \*   source neg: slow late broken noisy dirty rude worst awful leak bad terrible
       \*   source pos: helpful good clean quick great excellent
       \*   pyc    neg: slow late noisy broken rude leak awful worst terrible bad dirty
       \*   pyc    pos: good clean helpful quick great excellent
       [source |->
          [neg |-> << <<115, 108, 111, 119>>, <<108, 97, 116, 101>>,
                      <<98, 114, 111, 107, 101, 110>>, <<110, 111, 105, 115, 121>>,
                      <<100, 105, 114, 116, 121>>, <<114, 117, 100, 101>>,
                      <<119, 111, 114, 115, 116>>, <<97, 119, 102, 117, 108>>,
                      <<108, 101, 97, 107>>, <<98, 97, 100>>,
                      <<116, 101, 114, 114, 105, 98, 108, 101>> >>,
           pos |-> << <<104, 101, 108, 112, 102, 117, 108>>, <<103, 111, 111, 100>>,
                      <<99, 108, 101, 97, 110>>, <<113, 117, 105, 99, 107>>,
                      <<103, 114, 101, 97, 116>>,
                      <<101, 120, 99, 101, 108, 108, 101, 110, 116>> >>],
        pyc |->
          [neg |-> << <<115, 108, 111, 119>>, <<108, 97, 116, 101>>,
                      <<110, 111, 105, 115, 121>>, <<98, 114, 111, 107, 101, 110>>,
                      <<114, 117, 100, 101>>, <<108, 101, 97, 107>>,
                      <<97, 119, 102, 117, 108>>, <<119, 111, 114, 115, 116>>,
                      <<116, 101, 114, 114, 105, 98, 108, 101>>, <<98, 97, 100>>,
                      <<100, 105, 114, 116, 121>> >>,
           pos |-> << <<103, 111, 111, 100>>, <<99, 108, 101, 97, 110>>,
                      <<104, 101, 108, 112, 102, 117, 108>>, <<113, 117, 105, 99, 107>>,
                      <<103, 114, 101, 97, 116>>,
                      <<101, 120, 99, 101, 108, 108, 101, 110, 116>> >>]],
       \* PYTHONHASHSEED=2
       \*   source neg: terrible rude late noisy dirty awful slow worst leak broken bad
       \*   source pos: good quick helpful great clean excellent
       \*   pyc    neg: terrible rude worst late noisy dirty awful slow leak broken bad
       \*   pyc    pos: good quick helpful great clean excellent
       [source |->
          [neg |-> << <<116, 101, 114, 114, 105, 98, 108, 101>>, <<114, 117, 100, 101>>,
                      <<108, 97, 116, 101>>, <<110, 111, 105, 115, 121>>,
                      <<100, 105, 114, 116, 121>>, <<97, 119, 102, 117, 108>>,
                      <<115, 108, 111, 119>>, <<119, 111, 114, 115, 116>>,
                      <<108, 101, 97, 107>>, <<98, 114, 111, 107, 101, 110>>, <<98, 97, 100>> >>,
           pos |-> << <<103, 111, 111, 100>>, <<113, 117, 105, 99, 107>>,
                      <<104, 101, 108, 112, 102, 117, 108>>, <<103, 114, 101, 97, 116>>,
                      <<99, 108, 101, 97, 110>>, <<101, 120, 99, 101, 108, 108, 101, 110, 116>> >>],
        pyc |->
          [neg |-> << <<116, 101, 114, 114, 105, 98, 108, 101>>, <<114, 117, 100, 101>>,
                      <<119, 111, 114, 115, 116>>, <<108, 97, 116, 101>>,
                      <<110, 111, 105, 115, 121>>, <<100, 105, 114, 116, 121>>,
                      <<97, 119, 102, 117, 108>>, <<115, 108, 111, 119>>,
                      <<108, 101, 97, 107>>, <<98, 114, 111, 107, 101, 110>>, <<98, 97, 100>> >>,
           pos |-> << <<103, 111, 111, 100>>, <<113, 117, 105, 99, 107>>,
                      <<104, 101, 108, 112, 102, 117, 108>>, <<103, 114, 101, 97, 116>>,
                      <<99, 108, 101, 97, 110>>, <<101, 120, 99, 101, 108, 108, 101, 110, 116>> >>]],
       \* PYTHONHASHSEED=3
       \*   source neg: dirty late noisy awful slow broken rude bad leak worst terrible
       \*   source pos: excellent helpful quick great good clean
       \*   pyc    neg: dirty late noisy slow awful broken rude bad leak worst terrible
       \*   pyc    pos: excellent helpful quick great good clean
       [source |->
          [neg |-> << <<100, 105, 114, 116, 121>>, <<108, 97, 116, 101>>,
                      <<110, 111, 105, 115, 121>>, <<97, 119, 102, 117, 108>>,
                      <<115, 108, 111, 119>>, <<98, 114, 111, 107, 101, 110>>,
                      <<114, 117, 100, 101>>, <<98, 97, 100>>, <<108, 101, 97, 107>>,
                      <<119, 111, 114, 115, 116>>, <<116, 101, 114, 114, 105, 98, 108, 101>> >>,
           pos |-> << <<101, 120, 99, 101, 108, 108, 101, 110, 116>>,
                      <<104, 101, 108, 112, 102, 117, 108>>, <<113, 117, 105, 99, 107>>,
                      <<103, 114, 101, 97, 116>>, <<103, 111, 111, 100>>,
                      <<99, 108, 101, 97, 110>> >>],
        pyc |->
          [neg |-> << <<100, 105, 114, 116, 121>>, <<108, 97, 116, 101>>,
                      <<110, 111, 105, 115, 121>>, <<115, 108, 111, 119>>,
                      <<97, 119, 102, 117, 108>>, <<98, 114, 111, 107, 101, 110>>,
                      <<114, 117, 100, 101>>, <<98, 97, 100>>, <<108, 101, 97, 107>>,
                      <<119, 111, 114, 115, 116>>, <<116, 101, 114, 114, 105, 98, 108, 101>> >>,
           pos |-> << <<101, 120, 99, 101, 108, 108, 101, 110, 116>>,
                      <<104, 101, 108, 112, 102, 117, 108>>, <<113, 117, 105, 99, 107>>,
                      <<103, 114, 101, 97, 116>>, <<103, 111, 111, 100>>,
                      <<99, 108, 101, 97, 110>> >>]],
       \* PYTHONHASHSEED=4
       \*   source neg: bad dirty terrible leak rude worst slow noisy broken awful late
       \*   source pos: quick excellent helpful good clean great
       \*   pyc    neg: bad dirty terrible leak slow rude worst noisy broken awful late
       \*   pyc    pos: quick helpful excellent good clean great
       [source |->
          [neg |-> << <<98, 97, 100>>, <<100, 105, 114, 116, 121>>,
                      <<116, 101, 114, 114, 105, 98, 108, 101>>, <<108, 101, 97, 107>>,
                      <<114, 117, 100, 101>>, <<119, 111, 114, 115, 116>>,
                      <<115, 108, 111, 119>>, <<110, 111, 105, 115, 121>>,
                      <<98, 114, 111, 107, 101, 110>>, <<97, 119, 102, 117, 108>>,
                      <<108, 97, 116, 101>> >>,
           pos |-> << <<113, 117, 105, 99, 107>>,
                      <<101, 120, 99, 101, 108, 108, 101, 110, 116>>,
                      <<104, 101, 108, 112, 102, 117, 108>>, <<103, 111, 111, 100>>,
                      <<99, 108, 101, 97, 110>>, <<103, 114, 101, 97, 116>> >>],
        pyc |->
          [neg |-> << <<98, 97, 100>>, <<100, 105, 114, 116, 121>>,
                      <<116, 101, 114, 114, 105, 98, 108, 101>>, <<108, 101, 97, 107>>,
                      <<115, 108, 111, 119>>, <<114, 117, 100, 101>>,
                      <<119, 111, 114, 115, 116>>, <<110, 111, 105, 115, 121>>,
                      <<98, 114, 111, 107, 101, 110>>, <<97, 119, 102, 117, 108>>,
                      <<108, 97, 116, 101>> >>,
           pos |-> << <<113, 117, 105, 99, 107>>, <<104, 101, 108, 112, 102, 117, 108>>,
                      <<101, 120, 99, 101, 108, 108, 101, 110, 116>>, <<103, 111, 111, 100>>,
                      <<99, 108, 101, 97, 110>>, <<103, 114, 101, 97, 116>> >>]],
       \* PYTHONHASHSEED=5
       \*   source neg: bad worst rude leak awful noisy broken terrible late slow dirty
       \*   source pos: quick great excellent good helpful clean
       \*   pyc    neg: bad rude worst leak awful noisy broken late terrible slow dirty
       \*   pyc    pos: good quick great helpful excellent clean
       [source |->
          [neg |-> << <<98, 97, 100>>, <<119, 111, 114, 115, 116>>, <<114, 117, 100, 101>>,
                      <<108, 101, 97, 107>>, <<97, 119, 102, 117, 108>>,
                      <<110, 111, 105, 115, 121>>, <<98, 114, 111, 107, 101, 110>>,
                      <<116, 101, 114, 114, 105, 98, 108, 101>>, <<108, 97, 116, 101>>,
                      <<115, 108, 111, 119>>, <<100, 105, 114, 116, 121>> >>,
           pos |-> << <<113, 117, 105, 99, 107>>, <<103, 114, 101, 97, 116>>,
                      <<101, 120, 99, 101, 108, 108, 101, 110, 116>>, <<103, 111, 111, 100>>,
                      <<104, 101, 108, 112, 102, 117, 108>>, <<99, 108, 101, 97, 110>> >>],
        pyc |->
          [neg |-> << <<98, 97, 100>>, <<114, 117, 100, 101>>, <<119, 111, 114, 115, 116>>,
                      <<108, 101, 97, 107>>, <<97, 119, 102, 117, 108>>,
                      <<110, 111, 105, 115, 121>>, <<98, 114, 111, 107, 101, 110>>,
                      <<108, 97, 116, 101>>, <<116, 101, 114, 114, 105, 98, 108, 101>>,
                      <<115, 108, 111, 119>>, <<100, 105, 114, 116, 121>> >>,
           pos |-> << <<103, 111, 111, 100>>, <<113, 117, 105, 99, 107>>,
                      <<103, 114, 101, 97, 116>>, <<104, 101, 108, 112, 102, 117, 108>>,
                      <<101, 120, 99, 101, 108, 108, 101, 110, 116>>, <<99, 108, 101, 97, 110>> >>]],
       \* PYTHONHASHSEED=6
       \*   source neg: bad awful leak terrible dirty rude worst broken late slow noisy
       \*   source pos: clean helpful excellent quick great good
       \*   pyc    neg: bad awful leak terrible rude dirty worst broken late slow noisy
       \*   pyc    pos: clean helpful excellent quick great good
       [source |->
          [neg |-> << <<98, 97, 100>>, <<97, 119, 102, 117, 108>>, <<108, 101, 97, 107>>,
                      <<116, 101, 114, 114, 105, 98, 108, 101>>, <<100, 105, 114, 116, 121>>,
                      <<114, 117, 100, 101>>, <<119, 111, 114, 115, 116>>,
                      <<98, 114, 111, 107, 101, 110>>, <<108, 97, 116, 101>>,
                      <<115, 108, 111, 119>>, <<110, 111, 105, 115, 121>> >>,
           pos |-> << <<99, 108, 101, 97, 110>>, <<104, 101, 108, 112, 102, 117, 108>>,
                      <<101, 120, 99, 101, 108, 108, 101, 110, 116>>,
                      <<113, 117, 105, 99, 107>>, <<103, 114, 101, 97, 116>>,
                      <<103, 111, 111, 100>> >>],
        pyc |->
          [neg |-> << <<98, 97, 100>>, <<97, 119, 102, 117, 108>>, <<108, 101, 97, 107>>,
                      <<116, 101, 114, 114, 105, 98, 108, 101>>, <<114, 117, 100, 101>>,
                      <<100, 105, 114, 116, 121>>, <<119, 111, 114, 115, 116>>,
                      <<98, 114, 111, 107, 101, 110>>, <<108, 97, 116, 101>>,
                      <<115, 108, 111, 119>>, <<110, 111, 105, 115, 121>> >>,
           pos |-> << <<99, 108, 101, 97, 110>>, <<104, 101, 108, 112, 102, 117, 108>>,
                      <<101, 120, 99, 101, 108, 108, 101, 110, 116>>,
                      <<113, 117, 105, 99, 107>>, <<103, 114, 101, 97, 116>>,
                      <<103, 111, 111, 100>> >>]],
       \* PYTHONHASHSEED=7
       \*   source neg: leak rude awful dirty broken terrible slow noisy worst late bad
       \*   source pos: helpful excellent great clean quick good
       \*   pyc    neg: leak rude awful dirty broken terrible slow noisy worst late bad
       \*   pyc    pos: helpful excellent great clean quick good
       [source |->
          [neg |-> << <<108, 101, 97, 107>>, <<114, 117, 100, 101>>,
                      <<97, 119, 102, 117, 108>>, <<100, 105, 114, 116, 121>>,
                      <<98, 114, 111, 107, 101, 110>>,
                      <<116, 101, 114, 114, 105, 98, 108, 101>>, <<115, 108, 111, 119>>,
                      <<110, 111, 105, 115, 121>>, <<119, 111, 114, 115, 116>>,
                      <<108, 97, 116, 101>>, <<98, 97, 100>> >>,
           pos |-> << <<104, 101, 108, 112, 102, 117, 108>>,
                      <<101, 120, 99, 101, 108, 108, 101, 110, 116>>,
                      <<103, 114, 101, 97, 116>>, <<99, 108, 101, 97, 110>>,
                      <<113, 117, 105, 99, 107>>, <<103, 111, 111, 100>> >>],
        pyc |->
          [neg |-> << <<108, 101, 97, 107>>, <<114, 117, 100, 101>>,
                      <<97, 119, 102, 117, 108>>, <<100, 105, 114, 116, 121>>,
                      <<98, 114, 111, 107, 101, 110>>,
                      <<116, 101, 114, 114, 105, 98, 108, 101>>, <<115, 108, 111, 119>>,
                      <<110, 111, 105, 115, 121>>, <<119, 111, 114, 115, 116>>,
                      <<108, 97, 116, 101>>, <<98, 97, 100>> >>,
           pos |-> << <<104, 101, 108, 112, 102, 117, 108>>,
                      <<101, 120, 99, 101, 108, 108, 101, 110, 116>>,
                      <<103, 114, 101, 97, 116>>, <<99, 108, 101, 97, 110>>,
                      <<113, 117, 105, 99, 107>>, <<103, 111, 111, 100>> >>]] >>

\* the order in which `for w in S` visits the set S in the process `proc`
IterOrder(S, proc) ==
    LET seeded == HashOrders[proc.seed + 1]
        row == IF proc.pyc THEN seeded.pyc ELSE seeded.source
    IN  CHOOSE o \in {row.neg, row.pos} : {o[i] : i \in 1..Len(o)} = S

-----------------------------------------------------------------------------
(* analyze_text *)

\* number of positions at which w occurs in t
Occurrences(t, w) ==
    Cardinality({i \in 0..(Len(t) - Len(w)) : \A j \in 1..Len(w) : t[i + j] = w[j]})

RECURSIVE ScoreLoop_count(_, _, _, _)
\* variant: a marker word counts once per occurrence (`score += delta * t.count(w)`)
ScoreLoop_count(order, t, score, delta) ==
    IF order = <<>> THEN score
    ELSE ScoreLoop_count(Tail(order), t, score + delta * Occurrences(t, Head(order)), delta)

RECURSIVE ScoreLoop_assign(_, _, _, _)
\* variant: a hit overwrites the score instead of adding to it (`score = delta`)
ScoreLoop_assign(order, t, score, delta) ==
    IF order = <<>> THEN score
    ELSE ScoreLoop_assign(Tail(order), t,
                          IF contains(t, Head(order)) THEN delta ELSE score,
                          delta)

RECURSIVE ScoreLoop_break(_, _, _, _)
\* variant: the loop stops at the first marker word that does not occur
ScoreLoop_break(order, t, score, delta) ==
    IF order = <<>> THEN score
    ELSE IF contains(t, Head(order))
         THEN ScoreLoop_break(Tail(order), t, score + delta, delta)
         ELSE score

RECURSIVE ScoreLoop(_, _, _, _)
\* `for w in order: if w in t: score += delta`
ScoreLoop(order, t, score, delta) ==
    IF order = <<>> THEN score
    ELSE ScoreLoop(Tail(order), t,
                   IF contains(t, Head(order)) THEN score + delta ELSE score,
                   delta)

RECURSIVE Hits(_, _)
\* sum(1 for k in keys if k in t)
Hits(keys, t) ==
    IF keys = <<>> THEN 0
    ELSE (IF contains(t, Head(keys)) THEN 1 ELSE 0) + Hits(Tail(keys), t)

RECURSIVE CategoryLoop_ge(_, _, _)
\* variant: an equal hit count replaces the current best (`hits >= best_hits`)
CategoryLoop_ge(items, t, best) ==
    IF items = <<>> THEN best
    ELSE LET hits == Hits(Head(items).keys, t)
         IN  CategoryLoop_ge(Tail(items), t,
                             IF hits >= best.best_hits
                             THEN [best_cat |-> Head(items).cat, best_hits |-> hits]
                             ELSE best)

RECURSIVE CategoryLoop(_, _, _)
\* `for cat, keys in CATEGORY_KEYWORDS.items(): ...` from the state `best`
CategoryLoop(items, t, best) ==
    IF items = <<>> THEN best
    ELSE LET hits == Hits(Head(items).keys, t)
         IN  CategoryLoop(Tail(items), t,
                          IF hits > best.best_hits
                          THEN [best_cat |-> Head(items).cat, best_hits |-> hits]
                          ELSE best)

\* variant: no default label, a zero score leaves the sentiment unset
sentiment_of_nodefault(score) ==
    IF score > 0 THEN "positive"
    ELSE IF score < 0 THEN "negative"
    ELSE None

\* variant: a zero score counts as positive (`score >= 0`)
sentiment_of_ge(score) ==
    IF score >= 0 THEN "positive" ELSE "negative"

\* sentiment label of a score
sentiment_of(score) ==
    IF score > 0 THEN "positive"
    ELSE IF score < 0 THEN "negative"
    ELSE "neutral"

\* variant: a single hit already rates high (`best_hits < 1`)
severity_of_lt(sentiment, best_hits) ==
    IF sentiment = "negative"
    THEN (IF best_hits < 1 THEN "medium" ELSE "high")
    ELSE "low"

\* severity heuristic
severity_of(sentiment, best_hits) ==
    IF sentiment = "negative"
    THEN (IF best_hits <= 1 THEN "medium" ELSE "high")
    ELSE "low"

\* the locals of analyze_text(txt) at its return statement, in a process
\* that is `proc`
analyze_frame(txt, proc) ==
    LET t         == lower(txt)
        score     == ScoreLoop(IterOrder(POS_WORDS, proc), t,
                               ScoreLoop(IterOrder(NEG_WORDS, proc), t, 0, -1), 1)
        sentiment == sentiment_of(score)
        best      == CategoryLoop(CATEGORY_KEYWORDS, t, [best_cat |-> None, best_hits |-> 0])
        severity  == severity_of(sentiment, best.best_hits)
    IN  [t |-> t, score |-> score, sentiment |-> sentiment,
         best_cat |-> best.best_cat, best_hits |-> best.best_hits,
         severity |-> severity]

\* the dict returned from the locals f
returned(f) == [sentiment |-> f.sentiment, category |-> f.best_cat, severity |-> f.severity]

\* the dict analyze_text returns
analyze_text(txt, proc) == returned(analyze_frame(txt, proc))

-----------------------------------------------------------------------------
(* Inputs *)

\* phrases from which the analysed texts are built
PhraseList ==
    << Str(""),
       Str("backpack"),
       Str("the room is dirty and broken"),
       Str("excellent and clean service"),
       Str("power leak and broken fan, very noisy"),
       Str("the service was slow"),
       Str("bad terrible worst awful dirty late rude leak broken noisy slow"),
       Str("good great excellent helpful clean quick"),
       Str("DIRTY but Clean"),
       Str("BRO") \o <<KELVIN>> \o Str("EN lea") \o <<KELVIN>>,
       Str("D") \o <<CAPITAL_I_DOT>> \o Str("RTY ") \o <<CAPITAL_E_ACUTE, CAPITAL_SIGMA>>
           \o Str(" ") \o <<CAPITAL_SIGMA>> \o Str("A") >>

Phrases == {PhraseList[i] : i \in 1..Len(PhraseList)}

RECURSIVE Join(_)
\* the phrases of a sequence joined by single spaces
Join(ps) ==
    IF ps = <<>> THEN Str("")
    ELSE IF Len(ps) = 1 THEN ps[1]
    ELSE ps[1] \o Str(" ") \o Join(Tail(ps))

Texts == UNION {{Join(ps) : ps \in [1..n -> Phrases]} : n \in 0..MaxPhrases}

\* "BROKEN lea\u212a", which lower() turns into "broken leak"
BrokenLeak == Str("BROKEN lea") \o <<KELVIN>>

BrokenLeakLate == BrokenLeak \o Str(" late")

\* subject and description values sent to the preview
PreviewSubjects == {Str(""), Str("slow")}

PreviewDescriptions == {Str(""), BrokenLeakLate}

\* the label fields as a client may send them: left out, or filled in
LabelsLeftOut ==
    [raised_by_roll_no |-> "R1", raised_by_staff_id |-> None,
     category |-> None, sentiment |-> None, severity |-> None]

LabelsFilledIn ==
    [raised_by_roll_no |-> None, raised_by_staff_id |-> "S1",
     category |-> "food", sentiment |-> "positive", severity |-> "high"]

\* <<subject, description, other fields>> submitted to create_complaint; the
\* first two differ in the labels only, the last two give the same text
Submitted ==
    { <<Str("slow"), Str("late"), LabelsLeftOut>>,
      <<Str("slow"), Str("late"), LabelsFilledIn>>,
      <<Str("slow"), BrokenLeakLate, LabelsLeftOut>>,
      <<Str("slow") \o Str(" ") \o BrokenLeak, Str("late"), LabelsFilledIn>> }

\* Complaint: the validated request body of create_complaint
Complaint ==
    { [raised_by_roll_no |-> sd[3].raised_by_roll_no,
       raised_by_staff_id |-> sd[3].raised_by_staff_id,
       subject |-> sd[1], description |-> sd[2],
       category |-> sd[3].category, sentiment |-> sd[3].sentiment,
       severity |-> sd[3].severity]
      : sd \in Submitted }

\* Dict[str, str] bodies of analyze_complaint: each key present or missing,
\* a present value possibly the empty string
Payloads ==
    UNION { { p \in [K -> PreviewSubjects \cup PreviewDescriptions] :
                /\ "subject" \in K => p["subject"] \in PreviewSubjects
                /\ "description" \in K => p["description"] \in PreviewDescriptions }
            : K \in SUBSET {"subject", "description"} }

-----------------------------------------------------------------------------
(* The document store *)

\* create_document(collection, data): insert data, return the generated id
create_document(coll, data) ==
    [coll |-> Append(coll, data), id |-> ToString(Len(coll) + 1)]

\* get_documents(collection): the stored documents
get_documents(coll) == coll

-----------------------------------------------------------------------------
(* Complaint operations *)

NoRequest == [op |-> "none"]

NoFrame == [t |-> None]

\* complaint.model_dump()
model_dump(c) == c

\* variant: an absent analysis value does not overwrite (`if v is not None`)
merge_skip_none(comp_data, analysis) ==
    [k \in (DOMAIN comp_data) \cup (DOMAIN analysis) |->
        IF k \in DOMAIN analysis /\ analysis[k] # None THEN analysis[k] ELSE comp_data[k]]

\* `for k, v in analysis.items(): comp_data[k] = v`
merge(comp_data, analysis) ==
    [k \in (DOMAIN comp_data) \cup (DOMAIN analysis) |->
        IF k \in DOMAIN analysis THEN analysis[k] ELSE comp_data[k]]

\* payload.get(key) or ""
get_or_empty(payload, key) ==
    IF key \in DOMAIN payload /\ payload[key] # Str("") THEN payload[key] ELSE Str("")

\* the document create_complaint hands to the store
comp_data_of(complaint, proc) ==
    LET analysis == analyze_text(complaint.subject \o Str(" ") \o complaint.description, proc)
    IN  merge(model_dump(complaint), analysis)

\* POST /api/complaints
create_complaint(complaint) ==
    /\ Len(complaints) < MaxComplaints
    /\ LET ins == create_document(complaints, comp_data_of(complaint, process))
       IN  /\ complaints' = ins.coll
           /\ response' = [id |-> ins.id]
    /\ request' = [op |-> "create_complaint", complaint |-> complaint]
    /\ UNCHANGED <<globals, text, frame>>

\* GET /api/complaints
list_complaints ==
    /\ response' = [items |-> get_documents(complaints)]
    /\ request' = [op |-> "list_complaints"]
    /\ UNCHANGED <<globals, complaints, text, frame>>

\* variant: the preview also stores what it analysed
analyze_complaint_persist(payload) ==
    /\ Len(complaints) < MaxComplaints
    /\ LET txt == get_or_empty(payload, "subject") \o Str(" ") \o get_or_empty(payload, "description")
           res == analyze_text(txt, process)
       IN  /\ response' = res
           /\ complaints' = create_document(complaints, res).coll
    /\ request' = [op |-> "analyze_complaint", payload |-> payload]
    /\ UNCHANGED <<globals, text, frame>>

\* variant: the preview analyses the description alone
analyze_complaint_desc_only(payload) ==
    /\ response' = analyze_text(get_or_empty(payload, "description"), process)
    /\ request' = [op |-> "analyze_complaint", payload |-> payload]
    /\ UNCHANGED <<globals, complaints, text, frame>>

\* POST /api/complaints/analyze
analyze_complaint(payload) ==
    /\ LET txt == get_or_empty(payload, "subject") \o Str(" ") \o get_or_empty(payload, "description")
       IN  response' = analyze_text(txt, process)
    /\ request' = [op |-> "analyze_complaint", payload |-> payload]
    /\ UNCHANGED <<globals, complaints, text, frame>>

-----------------------------------------------------------------------------
(* Specification of the complaint operations *)

InitGlobals ==
    /\ hashseed \in SeedRange
    /\ from_pyc \in BOOLEAN
    /\ NEG_WORDS = NegWordsInit
    /\ POS_WORDS = PosWordsInit
    /\ CATEGORY_KEYWORDS = CategoryKeywordsInit

Init ==
    /\ InitGlobals
    /\ complaints = <<>>
    /\ request = NoRequest
    /\ response = None
    /\ text = Str("")
    /\ frame = NoFrame

Next ==
    \/ \E c \in Complaint : create_complaint(c)
    \/ list_complaints
    \/ \E p \in Payloads : analyze_complaint(p)

Spec == Init /\ [][Next]_vars

-----------------------------------------------------------------------------
(* Specification of analyze_text as a function of its argument *)

InitAnalyze ==
    /\ InitGlobals
    /\ complaints = <<>>
    /\ request = NoRequest
    /\ response = None
    /\ text \in Texts
    /\ frame = NoFrame

\* one call analyze_text(text), keeping its locals
Analyze ==
    /\ frame = NoFrame
    /\ LET f == analyze_frame(text, process)
       IN  frame' = f /\ response' = returned(f)
    /\ request' = [op |-> "analyze_text"]
    /\ UNCHANGED <<globals, complaints, text>>

NextAnalyze == Analyze

SpecAnalyze == InitAnalyze /\ [][NextAnalyze]_vars

-----------------------------------------------------------------------------
(* Properties of analyze_text, checked under SpecAnalyze *)

\* the call analyze_text(text) has returned
Analysed == frame # NoFrame

Categories == {CATEGORY_KEYWORDS[i].cat : i \in 1..Len(CATEGORY_KEYWORDS)}

\* marker words of the set W that occur in the string t
Present(W, t) == {w \in W : contains(t, w)}

\* score of the lower-cased string t, by counting distinct marker words
MarkerScore(t) == Cardinality(Present(POS_WORDS, t)) - Cardinality(Present(NEG_WORDS, t))

\* hit count of the i-th category on the lower-cased string t
HitCount(i, t) ==
    LET keys == CATEGORY_KEYWORDS[i].keys
    IN  Cardinality(Present({keys[j] : j \in 1..Len(keys)}, t))

\* the largest hit count of any category
MaxHits(t) ==
    LET hs == {HitCount(i, t) : i \in 1..Len(CATEGORY_KEYWORDS)}
    IN  CHOOSE m \in hs : \A h \in hs : h <= m

AllNeg == PhraseList[7]

AllPos == PhraseList[8]

\* C1: the score is the number of distinct POS_WORDS occurring in the
\* lower-cased text minus the number of distinct NEG_WORDS occurring in it,
\* each word counting once however often it occurs; the score lies in -11..6;
\* sentiment is positive, negative or neutral as the score is > 0, < 0 or = 0.
C1_SentimentFromScore ==
    Analysed =>
        LET sc == MarkerScore(lower(text))
        IN  /\ frame.score = sc
            /\ sc \in -11..6
            /\ sc > 0 => response.sentiment = "positive"
            /\ sc < 0 => response.sentiment = "negative"
            /\ sc = 0 => response.sentiment = "neutral"

\* every negative marker word occurs twice in the text and the score is -11
C1_Witness ==
    /\ Analysed
    /\ text = AllNeg \o Str(" ") \o AllNeg
    /\ frame.score = -11
    /\ response.sentiment = "negative"

\* C2: the category returned is the one with the maximal hit count, the
\* earliest in the order maintenance, food, security, cleanliness, discipline
\* among those tied at the maximum; it is absent exactly when every category
\* has zero hits.
C2_CategoryIsFirstMaximal ==
    Analysed =>
        LET t == lower(text)
            n == Len(CATEGORY_KEYWORDS)
            m == MaxHits(t)
        IN  /\ (response.category = None) <=> (\A i \in 1..n : HitCount(i, t) = 0)
            /\ response.category # None =>
                 \E i \in 1..n :
                    /\ response.category = CATEGORY_KEYWORDS[i].cat
                    /\ HitCount(i, t) = m
                    /\ \A j \in 1..(i - 1) : HitCount(j, t) < m
            /\ <<CATEGORY_KEYWORDS[1].cat, CATEGORY_KEYWORDS[2].cat, CATEGORY_KEYWORDS[3].cat,
                 CATEGORY_KEYWORDS[4].cat, CATEGORY_KEYWORDS[5].cat>>
               = <<"maintenance", "food", "security", "cleanliness", "discipline">>

\* "dirty" and "broken" are the only keywords: maintenance and cleanliness tie
\* at one hit and maintenance is returned
C2_Witness ==
    /\ Analysed
    /\ text = Str("the room is dirty and broken")
    /\ HitCount(1, lower(text)) = 1
    /\ HitCount(4, lower(text)) = 1
    /\ response.category = "maintenance"

\* C3: severity is low whenever sentiment is not negative; when sentiment is
\* negative it is medium if the winning hit count is 0 or 1 and high if it is
\* 2 or more; so high occurs only with sentiment negative and a category.
C3_Severity ==
    Analysed =>
        LET m == MaxHits(lower(text))
        IN  /\ response.sentiment # "negative" => response.severity = "low"
            /\ response.sentiment = "negative" /\ m <= 1 => response.severity = "medium"
            /\ response.sentiment = "negative" /\ m >= 2 => response.severity = "high"
            /\ frame.best_hits = m
            /\ response.severity = "high" =>
                 response.sentiment = "negative" /\ response.category # None

\* a negative text with four maintenance hits is rated high
C3_Witness ==
    /\ Analysed
    /\ text = Str("power leak and broken fan, very noisy")
    /\ frame.best_hits = 4
    /\ response = [sentiment |-> "negative", category |-> "maintenance", severity |-> "high"]

\* C5: analyze_text returns for every string, the empty and the blank string
\* included, and the result has a sentiment in {positive, negative, neutral},
\* a severity in {low, medium, high} and a category that is one of the five
\* categories or absent.
C5_Total ==
    Analysed =>
        /\ DOMAIN response = {"sentiment", "category", "severity"}
        /\ response.sentiment \in {"positive", "negative", "neutral"}
        /\ response.severity \in {"low", "medium", "high"}
        /\ response.category \in
             {"maintenance", "food", "security", "cleanliness", "discipline"} \cup {None}

\* the blank string has been analysed
C5_Witness ==
    /\ Analysed
    /\ text = Str(" ")
    /\ response.sentiment = "neutral"

\* C9 as stated: every text containing both "dirty" and "clean" has score 0,
\* sentiment neutral and severity low.
C9_Original ==
    Analysed /\ contains(text, Str("dirty")) /\ contains(text, Str("clean")) =>
        /\ frame.score = 0
        /\ response.sentiment = "neutral"
        /\ response.severity = "low"

\* C9 amended: in a text whose lower-cased form contains both "dirty" and
\* "clean" the two contributions cancel, so the score is the number of other
\* positive marker words present minus the number of other negative marker
\* words present; when these are equal, as when no other marker word occurs,
\* sentiment is neutral and severity is low.
C9_DirtyCleanCancel ==
    Analysed =>
        LET t == lower(text)
            otherPos == Cardinality(Present(POS_WORDS \ {Str("clean")}, t))
            otherNeg == Cardinality(Present(NEG_WORDS \ {Str("dirty")}, t))
        IN  contains(t, Str("dirty")) /\ contains(t, Str("clean")) =>
                /\ frame.score = otherPos - otherNeg
                /\ otherPos = otherNeg =>
                     response.sentiment = "neutral" /\ response.severity = "low"

\* "dirty" and "clean" are the only marker words and the text is neutral
C9_Witness ==
    /\ Analysed
    /\ text = Str("DIRTY but Clean")
    /\ Present(NEG_WORDS \cup POS_WORDS, lower(text)) = {Str("dirty"), Str("clean")}
    /\ response.sentiment = "neutral"
    /\ response.severity = "low"

\* no marker word and no category keyword occurs in the lower-cased string t
NoWordOccurs(t) ==
    /\ Present(NEG_WORDS \cup POS_WORDS, t) = {}
    /\ \A i \in 1..Len(CATEGORY_KEYWORDS) : HitCount(i, t) = 0

\* C10: a text in which no marker word and no category keyword occurs, the
\* empty and the blank string among them, is rated neutral, without category,
\* low.
C10_NoWordNeutral ==
    Analysed =>
        LET t == lower(text)
        IN  NoWordOccurs(t) =>
                response = [sentiment |-> "neutral", category |-> None, severity |-> "low"]

\* the empty string has been analysed
C10_Witness ==
    /\ Analysed
    /\ text = Str("")
    /\ NoWordOccurs(lower(text))
    /\ response.category = None

-----------------------------------------------------------------------------
(* Properties of the complaint operations, checked under Spec *)

\* the analysed text of a stored or submitted complaint
TextOf(c) == c.subject \o Str(" ") \o c.description

\* the three analyser fields of a stored complaint
LabelsOf(c) == [sentiment |-> c.sentiment, category |-> c.category, severity |-> c.severity]

\* subject and description of a preview body, a missing key read as ""
PreviewField(payload, key) == IF key \in DOMAIN payload THEN payload[key] ELSE Str("")

PreviewText(payload) ==
    PreviewField(payload, "subject") \o Str(" ") \o PreviewField(payload, "description")

Stored == 1..Len(complaints)

\* C4: two analyses of the same text give the same result, whatever ran in
\* between and in whatever order the marker sets are iterated; no operation
\* changes NEG_WORDS, POS_WORDS or CATEGORY_KEYWORDS.
C4_SameTextSameResult ==
    /\ \A i, j \in Stored :
          TextOf(complaints[i]) = TextOf(complaints[j]) =>
             LabelsOf(complaints[i]) = LabelsOf(complaints[j])
    /\ request.op = "analyze_complaint" =>
          /\ \A i \in Stored :
                TextOf(complaints[i]) = PreviewText(request.payload) =>
                   LabelsOf(complaints[i]) = response
          /\ \A proc \in Processes :
                analyze_text(PreviewText(request.payload), proc) = response
    /\ \A i \in Stored, proc \in Processes :
          analyze_text(TextOf(complaints[i]), proc) = LabelsOf(complaints[i])

C4_Deterministic ==
    /\ []C4_SameTextSameResult
    /\ [][UNCHANGED <<NEG_WORDS, POS_WORDS, CATEGORY_KEYWORDS>>]_vars

\* two complaints with different subjects but the same text are stored, and a
\* preview of a text that is also stored has run after them
C4_Witness ==
    /\ Len(complaints) >= 2
    /\ complaints[1].subject # complaints[2].subject
    /\ TextOf(complaints[1]) = TextOf(complaints[2])
    /\ request.op = "analyze_complaint"
    /\ \E i \in Stored : TextOf(complaints[i]) = PreviewText(request.payload)
    /\ hashseed > 0
    /\ from_pyc

\* C6: the record create_complaint stores carries the sentiment, category and
\* severity of analyze_text(subject + " " + description) in place of whatever
\* the client sent for them (absent category included), and every other field
\* as submitted.
C6_StoredIsAnalysed ==
    /\ \A i \in Stored :
          LabelsOf(complaints[i]) = analyze_text(TextOf(complaints[i]), process)
    /\ request.op = "create_complaint" =>
          LET c == request.complaint
              r == complaints[Len(complaints)]
          IN  /\ Len(complaints) >= 1
              /\ DOMAIN r = DOMAIN c
              /\ \A k \in (DOMAIN c) \ {"sentiment", "category", "severity"} : r[k] = c[k]
              /\ LabelsOf(r) = analyze_text(c.subject \o Str(" ") \o c.description, process)

\* the client sent a category, the text hits no keyword, the stored category
\* is absent
C6_Witness ==
    /\ request.op = "create_complaint"
    /\ request.complaint.category = "food"
    /\ request.complaint.severity = "high"
    /\ complaints[Len(complaints)].category = None
    /\ complaints[Len(complaints)].severity = "medium"
    /\ complaints[Len(complaints)].raised_by_staff_id = "S1"

\* C7: list_complaints returns the stored records as they are and changes
\* nothing; analyze_complaint stores and changes nothing; only
\* create_complaint changes the collection, by adding one record after the
\* existing ones, which keep the labels given at their creation.
C7_Step ==
    /\ \/ complaints' = complaints
       \/ /\ request'.op = "create_complaint"
          /\ Len(complaints') = Len(complaints) + 1
          /\ SubSeq(complaints', 1, Len(complaints)) = complaints
    /\ request'.op = "list_complaints" =>
          complaints' = complaints /\ response'.items = complaints
    /\ request'.op = "analyze_complaint" => complaints' = complaints

C7_OnlyCreateAdds == [][C7_Step]_vars

\* a preview has run on a collection of two or more complaints; its result
\* differs from the first one's labels, which are still those of its own text
C7_Witness ==
    /\ request.op = "analyze_complaint"
    /\ Len(complaints) >= 2
    /\ response # LabelsOf(complaints[1])
    /\ LabelsOf(complaints[1]) = analyze_text(TextOf(complaints[1]), process)

\* C8: the preview returns analyze_text(subject + " " + description), a
\* missing or empty field read as the empty string; it equals the labels
\* create_complaint stores for a complaint with that subject and description.
C8_PreviewEqualsStored ==
    request.op = "analyze_complaint" =>
        LET sub == PreviewField(request.payload, "subject")
            des == PreviewField(request.payload, "description")
        IN  /\ response = analyze_text(sub \o Str(" ") \o des, process)
            /\ \A c \in Complaint :
                  c.subject = sub /\ c.description = des =>
                     LabelsOf(comp_data_of(c, process)) = response
            /\ \A i \in Stored :
                  complaints[i].subject = sub /\ complaints[i].description = des =>
                     LabelsOf(complaints[i]) = response

\* a preview of a subject and description under which a complaint is stored
C8_Witness ==
    /\ request.op = "analyze_complaint"
    /\ DOMAIN request.payload = {"subject", "description"}
    /\ \E i \in Stored :
          /\ complaints[i].subject = request.payload["subject"]
          /\ complaints[i].description = request.payload["description"]
          /\ LabelsOf(complaints[i]) = response

====
